---- MODULE Spec2Model ----
(***************************************************************************)
(* Model of the faculty crawler (faculty_crawler_v2.py): the fetcher with  *)
(* its retry decorator, the breadth-first link frontier, the merge cache   *)
(* and the crawl() orchestrator.                                           *)
(*                                                                         *)
(* Abstractions:                                                           *)
(*  - a URL is an opaque name; urljoin/_clean_href have already been       *)
(*    applied to the link sets a listing page carries;                     *)
(*  - the body of a profile page is a document name ("t0", "t1", "t2"),   *)
(*    and parse_profile reads the record fields from tables over the       *)
(*    document; the Image URL field of a record is left out;               *)
(*  - the rendered seed page is represented by the department links in it;  *)
(*  - time advances only between two crawl() calls.                        *)
(***************************************************************************)
EXTENDS Integers, Sequences, FiniteSets, TLC

(* ---------------------------- bounds ---------------------------------- *)
\* crawl() calls in one behaviour
MaxCrawls == 2
\* clock advances in one behaviour
MaxTicks == 2
\* the fetch counters of the fetch log saturate here
MaxCount == 2

(* ------------------------ program constants --------------------------- *)
max_retries == 3
max_tries == 5
max_time == 300
request_timeout == 120
cache_expiration_seconds == 3600

\* self.base_urls: the configured institutions, in order
base_urls == << "https://iitm.irins.org", "https://iiscprofiles.irins.org" >>

\* max_concurrent_requests values the crawler is constructed with
ConcurrencyLimits == {1, 2}

ListingURLs == {"A", "B"}
ProfileURLs == {"P", "Q"}
URLs == ListingURLs \cup ProfileURLs

\* steps by which the clock advances between two crawl() calls
TickSteps == {1, 3599}

(* ------------------------------ helpers ------------------------------- *)
Range(s) == {s[i] : i \in DOMAIN s}

\* all orders in which a list can be built from a set (list(set) in Python)
Orders(S) ==
    {s \in [1..Cardinality(S) -> S] : \A i, j \in 1..Cardinality(S) : s[i] = s[j] => i = j}

Min(a, b) == IF a < b THEN a ELSE b

get_institution_name(url) ==
    IF url = "https://iiscprofiles.irins.org" THEN "IISC" ELSE "IITM"

(* ------------------------- pages and records --------------------------- *)
\* the body of a page: the profile links and pagination links a listing page
\* carries, and the document of a profile page
EmptyBody == [links |-> {}, pages |-> {}, text |-> ""]
ListingBody(ls, ps) == [links |-> ls, pages |-> ps, text |-> "listing"]
ProfileBody(t) == [links |-> {}, pages |-> {}, text |-> t]
ProfileTexts == {"t1"}

\* a value fetch_html returns: None, or the decoded body
None == [none |-> TRUE, body |-> EmptyBody]
Html(b) == [none |-> FALSE, body |-> b]
\* Python truthiness of `if html:` / `if content:`: None and "" are false
Truthy(r) == ~r.none /\ r.body # EmptyBody

(* ------------------------------ fetch_html ----------------------------- *)
\* what the network does with one HTTP request: it times out, fails at the
\* transport level, or answers with a status and a body
Timeout == [kind |-> "timeout", status |-> 0, body |-> EmptyBody]
ConnError == [kind |-> "conn_error", status |-> 0, body |-> EmptyBody]
Response(st, b) == [kind |-> "response", status |-> st, body |-> b]
Statuses == {200, 404, 500}
OutcomesWith(bodies) ==
    {Timeout, ConnError} \cup {Response(st, b) : st \in Statuses, b \in bodies \cup {EmptyBody}}

\* the exceptions the backoff decorator retries on
RetryableExceptions == {"TimeoutError", "ClientError", "ClientResponseError"}

\* response.raise_for_status(): raises ClientResponseError on 4xx and 5xx
raise_for_status_5xx_only(status) == status >= 500
raise_for_status(status) == status >= 400

\* seconds one attempt takes: the whole ClientTimeout on a timeout
Duration(o) == IF o.kind = "timeout" THEN request_timeout ELSE 1

\* the try block of fetch_html: the exception it raises ("none" if it returns)
\* and the value it returns
TryBlock(o) ==
    CASE o.kind = "timeout" -> [raised |-> "TimeoutError", value |-> None]
      [] o.kind = "conn_error" -> [raised |-> "ClientError", value |-> None]
      [] OTHER ->
            IF raise_for_status(o.status)
                THEN [raised |-> "ClientResponseError", value |-> None]
                ELSE [raised |-> "none", value |-> Html(o.body)]

\* the body of fetch_html: `except Exception` turns every exception of the try
\* block into the return value None, after a sleep of one second
fetch_html_body_uncaught(o) ==
    LET t == TryBlock(o) IN
    [raised |-> t.raised, value |-> t.value, took |-> Duration(o)]
fetch_html_body(o) ==
    LET t == TryBlock(o) IN
    IF t.raised # "none"
        THEN [raised |-> "none", value |-> None, took |-> Duration(o) + 1]
        ELSE [raised |-> "none", value |-> t.value, took |-> Duration(o)]

\* backoff.expo: the wait before retry n (without jitter)
Expo(n) == 2 ^ n

\* @backoff.on_exception(backoff.expo, (TimeoutError, ClientError), max_tries,
\* max_time) around the body: call it again while it raises a listed exception
\* and neither the tries nor the time are used up, else re-raise
RECURSIVE on_exception(_, _, _)
on_exception(net, tries, elapsed) ==
    LET r == fetch_html_body(net[tries + 1])
        t == elapsed + r.took
    IN  IF r.raised \in RetryableExceptions
            THEN IF tries + 1 >= max_tries \/ t >= max_time
                    THEN [raised |-> r.raised, value |-> None,
                          attempts |-> tries + 1, elapsed |-> t]
                    ELSE on_exception(net, tries + 1, t + Expo(tries))
            ELSE [raised |-> r.raised, value |-> r.value,
                  attempts |-> tries + 1, elapsed |-> t]

\* fetch_html(session, url) where net[i] is what the network does with the
\* i-th request for the URL
fetch_html(net) == on_exception(net, 0, 0)

\* the network doing the same at every attempt
Always(o) == [i \in 1..max_tries |-> o]

(* ------------------------------- strings ------------------------------- *)
\* a string is a sequence of characters
NA == << "N", "/", "A" >>

UpperLetters == << "A", "D", "E", "I", "L", "M", "N", "V", "W" >>
LowerLetters == << "a", "d", "e", "i", "l", "m", "n", "v", "w" >>
LowerChar(c) ==
    IF \E i \in DOMAIN UpperLetters : UpperLetters[i] = c
        THEN LowerLetters[CHOOSE i \in DOMAIN UpperLetters : UpperLetters[i] = c]
        ELSE c

\* str.lower()
LowerNot(s) == s
Lower(s) == [i \in DOMAIN s |-> LowerChar(s[i])]

\* `sub in s`
Contains(s, sub) == \E i \in 0..(Len(s) - Len(sub)) : SubSeq(s, i + 1, i + Len(sub)) = sub

\* str.startswith(p)
StartsWithAnywhere(s, p) == Contains(s, p)
StartsWith(s, p) == Len(p) <= Len(s) /\ SubSeq(s, 1, Len(p)) = p

\* index of the first c in s, 0 if there is none
RECURSIVE IndexFrom(_, _, _)
IndexFrom(s, c, i) ==
    IF i > Len(s) THEN 0 ELSE IF s[i] = c THEN i ELSE IndexFrom(s, c, i + 1)

\* str.split(c, 1)[1]: what follows the first c
AfterFirst(s, c) == SubSeq(s, IndexFrom(s, c, 1) + 1, Len(s))

\* str.split(c)
RECURSIVE Split(_, _)
Split(s, c) ==
    LET i == IndexFrom(s, c, 1) IN
    IF i = 0 THEN << s >> ELSE << SubSeq(s, 1, i - 1) >> \o Split(SubSeq(s, i + 1, Len(s)), c)

\* str.strip()
RECURSIVE StripStr(_)
StripStr(s) ==
    IF s = << >> THEN s
    ELSE IF Head(s) = " " THEN StripStr(Tail(s))
    ELSE IF s[Len(s)] = " " THEN StripStr(SubSeq(s, 1, Len(s) - 1))
    ELSE s

(* --------------------------- parse_profile ----------------------------- *)
\* what the extraction heuristics find in a profile document
NameIn(t) ==
    CASE t = "t0" -> << "A", "d", "a" >>
      [] t = "t1" -> << "A", "d", "a" >>
      [] t = "t2" -> << "b", "o" >>
      [] OTHER -> NA
DepartmentIn(t) ==
    CASE t = "t0" -> "Department of Physics"
      [] t = "t1" -> "Department of Mathematics"
      [] t = "t2" -> "School of Computing"
      [] OTHER -> "N/A"
VidwanIn(t) ==
    CASE t = "t0" -> << "4", "8" >>
      [] t = "t1" -> << "4", "8" >>
      [] OTHER -> NA
ExpertiseIn(t) ==
    CASE t = "t0" -> << "m", "l" >>
      [] t = "t1" -> << "M", "l" >>
      [] OTHER -> NA
\* the characters of a document, as the keyword search reads them
CharsOf(t) ==
    CASE t = "t0" -> << "A", "d", "a", " ", "m", "l" >>
      [] t = "t1" -> << "A", "d", "a", " ", "M", "l" >>
      [] t = "t2" -> << "b", "o", " ", "a", "i" >>
      [] OTHER -> << >>

\* parse_profile(html_content, url, institution_name): the profile record
parse_profile(html_content, url, institution_name) ==
    [Institution |-> institution_name,
     Name |-> NameIn(html_content.text),
     Department |-> DepartmentIn(html_content.text),
     Vidwan_ID |-> VidwanIn(html_content.text),
     Profile_URL |-> url,
     Expertise |-> ExpertiseIn(html_content.text),
     html_content |-> html_content.text]

\* the records a snapshot can hold
Records ==
    {parse_profile(ProfileBody(t), u, get_institution_name(b)) :
        t \in {"t0", "t1", "t2"}, u \in ProfileURLs, b \in Range(base_urls)}

(* ----------------------------- cache store ----------------------------- *)
\* the cache file: whether it exists, whether its text is a JSON array
\* ("array"), does not parse ("invalid_json": an empty or cut-off file), is
\* JSON but no array ("not_list"), or is not UTF-8 text ("not_utf8"); the
\* records written to it so far, and its modification time
NoFile == [exists |-> FALSE, form |-> "array", data |-> << >>, mtime |-> 0]
FileOf(profiles, t) == [exists |-> TRUE, form |-> "array", data |-> profiles, mtime |-> t]

\* _is_cache_valid() at time t
_is_cache_valid_inclusive(f, t) ==
    IF ~f.exists THEN FALSE ELSE t - f.mtime <= cache_expiration_seconds
_is_cache_valid(f, t) ==
    IF ~f.exists THEN FALSE ELSE t - f.mtime < cache_expiration_seconds

\* _load_from_cache() raises what it does not catch: it catches only
\* json.JSONDecodeError, and reading a file that is not UTF-8 text raises
\* UnicodeDecodeError
_load_from_cache_raises(f) == f.exists /\ f.form = "not_utf8"

\* _load_from_cache(): [] for a missing file, for one json.load rejects and
\* for JSON that is no list
_load_from_cache_empty(f) == << >>
_load_from_cache(f) ==
    IF ~f.exists THEN << >>
    ELSE IF f.form = "array" THEN f.data
    ELSE << >>

(* ------------------------------ merge base ----------------------------- *)
\* a dict keyed by Profile URL, as the sequence of its values in insertion
\* order; d[key] = value replaces the value in place or appends it
Keys(d) == {d[i].Profile_URL : i \in DOMAIN d}
\* a record without the 'Profile URL' key: profile['Profile URL'] raises KeyError
Missing == "<missing>"
HasKeys(ps) == \A i \in DOMAIN ps : ps[i].Profile_URL # Missing
DictAppendOnly(d, p) == Append(d, p)
DictSet(d, p) ==
    IF p.Profile_URL \in Keys(d)
        THEN [i \in DOMAIN d |-> IF d[i].Profile_URL = p.Profile_URL THEN p ELSE d[i]]
        ELSE Append(d, p)

\* d[p['Profile URL']] = p for every p of the list, in order
DictUpdateForgetting(d, ps) == ps
RECURSIVE DictUpdate(_, _)
DictUpdate(d, ps) ==
    IF ps = << >> THEN d ELSE DictUpdate(DictSet(d, Head(ps)), Tail(ps))

(* ------------------------------- filtering ----------------------------- *)
NamePrefix == << "n", "a", "m", "e", ":" >>
VidwanPrefix == << "v", "i", "d", "w", "a", "n", ":" >>

\* keywords = [k.strip().lower() for k in keyword.split(',') if k.strip()]
KeywordsOf(keyword) ==
    LET parts == Split(keyword, ",")
        kept == SelectSeq(parts, LAMBDA k : StripStr(k) # << >>)
    IN  [i \in DOMAIN kept |-> Lower(StripStr(kept[i]))]

\* match_score of a record: 2 for a keyword in Expertise, else 1 for one in
\* the page body
RECURSIVE ScoreFrom(_, _, _)
ScoreFrom(p, kws, i) ==
    IF i > Len(kws) THEN 0
    ELSE (IF Contains(Lower(p.Expertise), kws[i]) THEN 2
          ELSE IF Contains(Lower(CharsOf(p.html_content)), kws[i]) THEN 1
          ELSE 0) + ScoreFrom(p, kws, i + 1)
match_score_expertise_only(p, kws) ==
    2 * Cardinality({i \in DOMAIN kws : Contains(Lower(p.Expertise), kws[i])})
match_score(p, kws) == ScoreFrom(p, kws, 1)

\* x.get('match_score', 0): the sort key; no record carries a match_score key
SortKey(p) == 0

\* list.sort(key=SortKey, reverse=True): stable, by descending key
RECURSIVE InsertDesc(_, _)
InsertDesc(sorted, p) ==
    IF sorted = << >> THEN << p >>
    ELSE IF SortKey(Head(sorted)) >= SortKey(p)
        THEN << Head(sorted) >> \o InsertDesc(Tail(sorted), p)
        ELSE << p >> \o sorted
RECURSIVE SortDesc(_, _)
SortDesc(acc, s) ==
    IF s = << >> THEN acc ELSE SortDesc(InsertDesc(acc, Head(s)), Tail(s))

\* lines 386-409 of crawl(): the records the query keeps, in order
FilterProfilesNothingForEmpty(all, keyword) ==
    SelectSeq(all, LAMBDA p : keyword # << >>)
FilterProfiles(all, keyword) ==
    IF keyword # << >> /\ StartsWith(Lower(keyword), NamePrefix)
        THEN LET search_term == Lower(AfterFirst(keyword, ":"))
             IN  SelectSeq(all, LAMBDA p : StartsWith(Lower(p.Name), search_term))
    ELSE IF keyword # << >> /\ StartsWith(Lower(keyword), VidwanPrefix)
        THEN LET search_term == Lower(AfterFirst(keyword, ":"))
             IN  SelectSeq(all, LAMBDA p : search_term = Lower(p.Vidwan_ID))
    ELSE IF keyword # << >>
        THEN LET kws == KeywordsOf(keyword)
                 scored == SelectSeq(all, LAMBDA p : match_score(p, kws) > 0)
             IN  SortDesc(<< >>, scored)
    ELSE all

\* {k: v for k, v in p.items() if k != 'html_content'}
WithHtml(p) == p
WithoutHtml(p) ==
    [Institution |-> p.Institution, Name |-> p.Name, Department |-> p.Department,
     Vidwan_ID |-> p.Vidwan_ID, Profile_URL |-> p.Profile_URL, Expertise |-> p.Expertise]

\* what crawl() returns for a corpus and a query
Answer(all, keyword) ==
    LET filtered_profiles == FilterProfiles(all, keyword)
    IN  [i \in DOMAIN filtered_profiles |-> WithoutHtml(filtered_profiles[i])]

(* -------------------------------- state -------------------------------- *)
VARIABLES
    pc,                      \* where crawl() stands
    base,                    \* index into base_urls of the institution in work
    attempt,                 \* the render attempts made for it
    links_bound,             \* whether initial_dept_links has been assigned
    initial_dept_links,
    urls_to_process,
    processed_urls,
    profile_links,
    current_batch_urls,      \* the URLs of the batch being gathered, in order
    tasks,                   \* one fetch_html task per URL of the batch
    profiles_data,
    existing_profiles,
    all_profiles,
    written,                 \* records _save_to_cache has written
    result,                  \* what the last crawl() returned
    crawls,                  \* crawl() calls begun
    web,                     \* the page behind each listing URL
    now,                     \* time.time()
    ticks,
    cache_file,
    max_concurrent_requests,
    net,                     \* the network's answers to one fetch_html call
    fetched,                 \* what that call gave
    reader_saw,              \* what another caller read from the cache file
    audit,                   \* whether the fetch log of the whole call is kept
    run_fetches,             \* fetch log: requests per URL in this crawl()
    phase_fetches,           \* fetch log: requests per URL in this session
    failed_pages,            \* listing pages whose fetch gave nothing
    used_cache,              \* the running call took the cache-valid branch
    rendered,                \* the running call loaded a seed page
    cache_at_begin,          \* the cache file when the running call began
    last_call,               \* the call that returned last
    fresh,                   \* the record last extracted per URL in this call
    request,                 \* the /search request being served
    session,                 \* the browser session of the web application
    response,                \* what the last finished request answered
    last_search              \* the results the last /search rendered

\* the locals of get_all_profile_links
frontierVars == << attempt, links_bound, initial_dept_links, urls_to_process,
                   processed_urls, profile_links >>
crawlVars == << pc, base, frontierVars, current_batch_urls, tasks,
                profiles_data, existing_profiles, all_profiles, written, result,
                crawls >>
envVars == << web, now, ticks, cache_file, max_concurrent_requests, audit >>
fetchVars == << net, fetched >>
logVars == << run_fetches, phase_fetches, failed_pages, used_cache, rendered,
              cache_at_begin, last_call, fresh >>
appVars == << request, session, response, last_search >>
vars == << crawlVars, envVars, fetchVars, reader_saw, logVars, appVars >>

NoFetches == [u \in URLs |-> 0]
NoRecord == parse_profile(EmptyBody, "", "")
NoFresh == [u \in ProfileURLs |-> NoRecord]
NoCall == [used_cache |-> FALSE, keyword |-> << >>, returned |-> FALSE]
NotFetched == [raised |-> "none", value |-> None, attempts |-> 0, elapsed |-> 0]
NotRead == [read |-> FALSE, valid |-> FALSE, form |-> "array", data |-> << >>]
NoRequest ==
    [pending |-> FALSE, keyword |-> << >>, search_type |-> "keyword",
     institution |-> "all", crawls_before |-> 0]
\* a session without the 'results' key
NoSession == [has_results |-> FALSE, results |-> << >>]
NoResponse == [kind |-> "none", rows |-> << >>]

\* what a listing page can carry: profile links and pagination links
Pages == [links : SUBSET ProfileURLs, pages : SUBSET ListingURLs]
\* the sites: the page behind every listing URL
Webs == [ListingURLs -> Pages]
Site(la, pa, lb, pb) ==
    [u \in ListingURLs |->
        IF u = "A" THEN [links |-> la, pages |-> pa] ELSE [links |-> lb, pages |-> pb]]
\* the sites crawl() is run against: pagination in a cycle, a page that links
\* to itself, pages without any link, and a chain
CrawlWebs ==
    { Site({"P"}, {"B"}, {"Q"}, {"A"}),
      Site({"P", "Q"}, {"A"}, {}, {}),
      Site({}, {}, {}, {"B"}),
      Site({}, {"B"}, {"P"}, {}) }

\* the queries crawl() is called with
Keywords ==
    { << >>,
      << "m", "l", ",", " ", "a", "i" >> }

CachedRecord(u) == parse_profile(ProfileBody("t0"), u, "IITM")
\* the cache file before the first call: none, an empty snapshot, snapshots of
\* an earlier crawl, or a file that does not parse
InitialCaches ==
    { NoFile,
      FileOf(<< >>, 0),
      FileOf(<< CachedRecord("P") >>, 0),
      FileOf(<< CachedRecord("Q"), CachedRecord("P") >>, 0),
      [exists |-> TRUE, form |-> "invalid_json", data |-> << >>, mtime |-> 0] }

\* the state of a crawler that has not been called
Uncalled ==
    /\ base = 1 /\ attempt = 0
    /\ urls_to_process = {} /\ processed_urls = {} /\ profile_links = {}
    /\ current_batch_urls = << >> /\ tasks = << >>
    /\ profiles_data = << >> /\ existing_profiles = << >>
    /\ written = 0 /\ result = << >> /\ crawls = 0
    /\ now = 0 /\ ticks = 0
    /\ fetched = NotFetched
    /\ reader_saw = NotRead
    /\ run_fetches = NoFetches /\ phase_fetches = NoFetches /\ failed_pages = {}
    /\ used_cache = FALSE /\ rendered = FALSE
    /\ last_call = NoCall /\ fresh = NoFresh
    /\ request = NoRequest /\ session = NoSession
    /\ response = NoResponse /\ last_search = << >>

Init ==
    /\ Uncalled
    /\ all_profiles = << >>
    /\ pc = "idle"
    /\ links_bound = FALSE
    /\ initial_dept_links = {}
    /\ web \in CrawlWebs
    /\ cache_file \in InitialCaches
    /\ cache_at_begin = cache_file
    /\ max_concurrent_requests \in ConcurrencyLimits
    /\ audit = FALSE
    /\ net = Always(Timeout)

(* ------------------------------- actions ------------------------------- *)
\* time passes between two calls
Tick ==
    /\ pc = "idle"
    /\ ticks < MaxTicks
    /\ \E d \in TickSteps : now' = now + d
    /\ ticks' = ticks + 1
    /\ UNCHANGED << crawlVars, web, cache_file, max_concurrent_requests, audit, fetchVars,
                    reader_saw, logVars, appVars >>

\* crawl(), lines 359-374: the cache decision, the load, the merge base, and the
\* start of the loop over base_urls. The keyword argument is not read before
\* line 386: it is drawn where it is read, in filter_return. An exception of
\* the load (line 364 or 367) or of the merge base (line 368) leaves crawl().
crawl_begin ==
    /\ pc = "idle"
    /\ crawls < MaxCrawls
    /\ crawls' = crawls + 1
    /\ IF _load_from_cache_raises(cache_file)
          THEN /\ pc' = "crashed"
               /\ used_cache' = FALSE
               /\ UNCHANGED << all_profiles, existing_profiles, profiles_data >>
          ELSE /\ all_profiles' = _load_from_cache(cache_file)
               /\ IF _is_cache_valid(cache_file, now)
                     THEN /\ pc' = "filter"
                          /\ used_cache' = TRUE
                          /\ UNCHANGED << existing_profiles, profiles_data >>
                     ELSE IF ~HasKeys(_load_from_cache(cache_file))
                     THEN /\ pc' = "crashed"
                          /\ used_cache' = FALSE
                          /\ UNCHANGED << existing_profiles, profiles_data >>
                     ELSE /\ pc' = "render"
                          /\ used_cache' = FALSE
                          /\ existing_profiles' =
                                DictUpdate(<< >>, _load_from_cache(cache_file))
                          /\ profiles_data' = << >>
    /\ cache_at_begin' = cache_file
    /\ UNCHANGED << base, frontierVars, current_batch_urls, tasks, written, result,
                    envVars, fetchVars, reader_saw, run_fetches, phase_fetches,
                    failed_pages, rendered, last_call, fresh, appVars >>

\* what one pass of the render loop meets: setup_driver raising, an exception
\* inside the try block, or a page with some department links
RenderOutcomes ==
    { [kind |-> "driver_error", links |-> {}], [kind |-> "exception", links |-> {}] }
        \cup { [kind |-> "page", links |-> ls] : ls \in SUBSET ListingURLs }

\* get_all_profile_links, lines 84-143: one pass of `for attempt in
\* range(max_retries)`
render(o) ==
    /\ pc = "render"
    /\ rendered' = TRUE
    /\ CASE o.kind = "driver_error" ->
              /\ pc' = "crashed"
              /\ UNCHANGED << attempt, links_bound, initial_dept_links >>
         [] o.kind = "exception" ->
              /\ attempt' = attempt + 1
              /\ pc' = IF attempt + 1 >= max_retries THEN "session" ELSE "render"
              /\ UNCHANGED << links_bound, initial_dept_links >>
         [] OTHER ->
              /\ initial_dept_links' = o.links
              /\ links_bound' = TRUE
              /\ IF o.links # {}
                    THEN pc' = "session" /\ UNCHANGED attempt
                    ELSE /\ attempt' = attempt + 1
                         /\ pc' = IF attempt + 1 >= max_retries THEN "session" ELSE "render"
    /\ UNCHANGED << base, urls_to_process, processed_urls, profile_links,
                    current_batch_urls, tasks, profiles_data, existing_profiles,
                    all_profiles, written, result, crawls, envVars, fetchVars, reader_saw,
                    run_fetches, phase_fetches, failed_pages, used_cache, cache_at_begin,
                    last_call, fresh, appVars >>

\* lines 145-148: the session opens and the frontier is seeded; reading
\* initial_dept_links when no pass assigned it raises UnboundLocalError.
\* Neither attempt nor initial_dept_links is read after line 147.
open_session ==
    /\ pc = "session"
    /\ IF ~links_bound
          THEN /\ pc' = "crashed"
               /\ UNCHANGED << urls_to_process, processed_urls, attempt,
                               initial_dept_links >>
          ELSE /\ pc' = "loop"
               /\ urls_to_process' = initial_dept_links
               /\ processed_urls' = {}
               /\ attempt' = 0
               /\ initial_dept_links' = {}
    /\ phase_fetches' = NoFetches
    /\ UNCHANGED << base, links_bound, profile_links,
                    current_batch_urls, tasks, profiles_data, existing_profiles,
                    all_profiles, written, result, crawls, envVars, fetchVars, reader_saw,
                    run_fetches, failed_pages, used_cache, rendered, cache_at_begin,
                    last_call, fresh, appVars >>

Waiting == [st |-> "waiting", result |-> None]
TasksFor(urls) == [i \in DOMAIN urls |-> Waiting]

\* lines 150-155: the loop test, and the batch taken from the frontier
loop_head ==
    /\ pc = "loop"
    /\ IF urls_to_process = {}
          THEN /\ pc' = "traversed"
               /\ UNCHANGED << urls_to_process, current_batch_urls, tasks >>
          ELSE \E order \in Orders(urls_to_process) :
               /\ current_batch_urls' = order
               /\ urls_to_process' = {}
               /\ tasks' = TasksFor(order)
               /\ pc' = "gather_listing"
    /\ UNCHANGED << base, attempt, links_bound, initial_dept_links, processed_urls,
                    profile_links, profiles_data, existing_profiles, all_profiles, written,
                    result, crawls, envVars, fetchVars, reader_saw, logVars, appVars >>

\* the requests of the open session that hold a connection
InFlight == Cardinality({i \in DOMAIN tasks : tasks[i].st = "inflight"})

\* aiohttp.TCPConnector(limit=...): a request gets a connection while fewer
\* than limit are in use
CanAcquireUnlimited(inflight, limit) == TRUE
CanAcquire(inflight, limit) == inflight < limit

Bump(log, u) == [log EXCEPT ![u] = Min(@ + 1, MaxCount)]

\* a task of the batch sends its request (session.get, line 288)
StartRequest(i) ==
    /\ pc \in {"gather_listing", "gather_profiles"}
    /\ tasks[i].st = "waiting"
    /\ CanAcquire(InFlight, max_concurrent_requests)
    /\ tasks' = [tasks EXCEPT ![i].st = "inflight"]
    /\ run_fetches' = IF audit THEN Bump(run_fetches, current_batch_urls[i])
                               ELSE run_fetches
    /\ phase_fetches' = Bump(phase_fetches, current_batch_urls[i])
    /\ UNCHANGED << pc, base, frontierVars, current_batch_urls, profiles_data,
                    existing_profiles, all_profiles, written, result, crawls, envVars,
                    fetchVars, reader_saw, failed_pages, used_cache, rendered,
                    cache_at_begin, last_call, fresh, appVars >>

\* what the network can answer for a URL
OutcomesFor(u) ==
    IF u \in ListingURLs
        THEN OutcomesWith({ListingBody(web[u].links, web[u].pages)})
        ELSE OutcomesWith({ProfileBody(t) : t \in ProfileTexts})

\* a task's fetch_html call returns (or raises into gather)
FinishRequest(i) ==
    /\ pc \in {"gather_listing", "gather_profiles"}
    /\ tasks[i].st = "inflight"
    /\ \E o \in OutcomesFor(current_batch_urls[i]) :
         LET r == fetch_html(Always(o)) IN
         IF r.raised # "none"
            THEN pc' = "crashed" /\ UNCHANGED tasks
            ELSE /\ tasks' = [tasks EXCEPT ![i] = [st |-> "done", result |-> r.value]]
                 /\ UNCHANGED pc
    /\ UNCHANGED << base, frontierVars, current_batch_urls, profiles_data,
                    existing_profiles, all_profiles, written, result, crawls, envVars,
                    fetchVars, reader_saw, logVars, appVars >>

AllDone == \A i \in DOMAIN tasks : tasks[i].st = "done"

\* line 158: processed_urls.update(current_batch_urls)
MarkVisitedNot(processed, batch) == processed
MarkVisited(processed, batch) == processed \cup Range(batch)

\* line 169: a pagination link joins the frontier unless visited or queued
ShouldEnqueueVisited(new_url, processed, pending) == new_url \notin pending
ShouldEnqueue(new_url, processed, pending) ==
    new_url \notin processed /\ new_url \notin pending

\* lines 156-170: the batch is complete; its pages are marked visited, their
\* profile links collected and their pagination links queued
gather_listing_done ==
    /\ pc = "gather_listing"
    /\ AllDone
    /\ LET html_contents == [i \in DOMAIN tasks |-> tasks[i].result]
           good == {i \in DOMAIN tasks : Truthy(html_contents[i])}
           visited == MarkVisited(processed_urls, current_batch_urls)
           paged == UNION {html_contents[i].body.pages : i \in good}
       IN  /\ processed_urls' = visited
           /\ profile_links' =
                profile_links \cup UNION {html_contents[i].body.links : i \in good}
           /\ urls_to_process' =
                urls_to_process \cup
                    {u \in paged : ShouldEnqueue(u, visited, urls_to_process)}
           /\ failed_pages' =
                failed_pages \cup {current_batch_urls[i] : i \in DOMAIN tasks \ good}
    /\ pc' = "loop"
    /\ tasks' = << >>
    /\ current_batch_urls' = << >>
    /\ UNCHANGED << base, attempt, links_bound, initial_dept_links, profiles_data,
                    existing_profiles, all_profiles, written, result, crawls, envVars,
                    fetchVars, reader_saw, run_fetches, phase_fetches, used_cache, rendered,
                    cache_at_begin, last_call, fresh, appVars >>

\* crawl(), lines 370-373 and 382: the loop over base_urls moves on to the
\* next institution, or ends with the values of the merge base
AfterInstitutionSaveEach(merged, harvested) ==
    /\ existing_profiles' = merged
    /\ profiles_data' = harvested
    /\ all_profiles' = merged
    /\ pc' = "save"
    /\ UNCHANGED base
AfterInstitutionSaveIfAny(merged, harvested) ==
    /\ existing_profiles' = merged
    /\ IF base < Len(base_urls)
          THEN /\ base' = base + 1
               /\ profiles_data' = << >>
               /\ pc' = "render"
               /\ UNCHANGED all_profiles
          ELSE /\ profiles_data' = harvested
               /\ all_profiles' = merged
               /\ pc' = IF merged = << >> THEN "filter" ELSE "save"
               /\ UNCHANGED base
AfterInstitution(merged, harvested) ==
    /\ existing_profiles' = merged
    /\ IF base < Len(base_urls)
          THEN /\ base' = base + 1
               /\ profiles_data' = << >>
               /\ pc' = "render"
               /\ UNCHANGED all_profiles
          ELSE /\ profiles_data' = harvested
               /\ all_profiles' = merged
               /\ pc' = "save"
               /\ UNCHANGED base

\* lines 172-175 and 374-381: the traversal returns list(profile_links) and its
\* locals are gone; the profile round starts, or the institution is reported
\* as without links
return_links ==
    /\ pc = "traversed"
    /\ \E profile_urls \in Orders(profile_links) :
         IF profile_urls # << >>
            THEN /\ current_batch_urls' = profile_urls
                 /\ tasks' = TasksFor(profile_urls)
                 /\ pc' = "gather_profiles"
                 /\ UNCHANGED << base, profiles_data, existing_profiles, all_profiles >>
            ELSE /\ AfterInstitution(existing_profiles, profiles_data)
                 /\ UNCHANGED << current_batch_urls, tasks >>
    /\ phase_fetches' = NoFetches
    /\ failed_pages' = {}
    /\ attempt' = 0
    /\ links_bound' = FALSE
    /\ initial_dept_links' = {}
    /\ processed_urls' = {}
    /\ profile_links' = {}
    /\ UNCHANGED << urls_to_process, written, result, crawls, envVars, fetchVars,
                    reader_saw, run_fetches, used_cache, rendered, cache_at_begin,
                    last_call, fresh, appVars >>

\* lines 303-311: the records of the pages that were fetched, in batch order
RECURSIVE ParseFrom(_, _, _, _)
ParseFrom(urls, contents, institution_name, i) ==
    IF i > Len(urls) THEN << >>
    ELSE (IF Truthy(contents[i])
            THEN << parse_profile(contents[i].body, urls[i], institution_name) >>
            ELSE << >>) \o ParseFrom(urls, contents, institution_name, i + 1)

\* lines 301-311 and 377-379: the profile batch is complete; the pages are
\* parsed and the records put into the merge base
gather_profiles_done ==
    /\ pc = "gather_profiles"
    /\ AllDone
    /\ LET html_contents == [i \in DOMAIN tasks |-> tasks[i].result]
           harvested == profiles_data \o
                ParseFrom(current_batch_urls, html_contents,
                          get_institution_name(base_urls[base]), 1)
       IN  /\ AfterInstitution(DictUpdate(existing_profiles, harvested), harvested)
           /\ fresh' = [u \in ProfileURLs |->
                  IF \E i \in DOMAIN harvested : harvested[i].Profile_URL = u
                     THEN harvested[CHOOSE i \in DOMAIN harvested :
                                        harvested[i].Profile_URL = u]
                     ELSE fresh[u]]
    /\ tasks' = << >>
    /\ current_batch_urls' = << >>
    /\ phase_fetches' = NoFetches
    /\ UNCHANGED << frontierVars, written, result, crawls, envVars, fetchVars,
                    reader_saw, run_fetches, failed_pages, used_cache, rendered,
                    cache_at_begin, last_call, appVars >>

\* _save_to_cache, line 356: open(cache_file, 'w') empties the file
save_open ==
    /\ pc = "save"
    /\ cache_file' = [exists |-> TRUE, form |-> "invalid_json", data |-> << >>,
                      mtime |-> now]
    /\ written' = 0
    /\ pc' = "writing"
    /\ UNCHANGED << base, frontierVars, current_batch_urls, tasks, profiles_data,
                    existing_profiles, all_profiles, result, crawls, web, now, ticks,
                    max_concurrent_requests, audit, fetchVars, reader_saw, logVars, appVars >>

\* line 357: json.dump writes the next record of the array
save_write ==
    /\ pc = "writing"
    /\ written < Len(all_profiles)
    /\ cache_file' = [cache_file EXCEPT !.data = Append(@, all_profiles[written + 1])]
    /\ written' = written + 1
    /\ UNCHANGED << pc, base, frontierVars, current_batch_urls, tasks,
                    profiles_data, existing_profiles, all_profiles, result, crawls, web,
                    now, ticks, max_concurrent_requests, audit, fetchVars, reader_saw, logVars, appVars >>

\* lines 356-357: the array is closed and the file with it
save_close ==
    /\ pc = "writing"
    /\ written = Len(all_profiles)
    /\ cache_file' = FileOf(all_profiles, now)
    /\ pc' = "filter"
    /\ UNCHANGED << base, frontierVars, current_batch_urls, tasks, profiles_data,
                    existing_profiles, all_profiles, written, result, crawls, web, now,
                    ticks, max_concurrent_requests, audit, fetchVars, reader_saw, logVars, appVars >>

\* lines 386-414: the query is answered from all_profiles and crawl() returns;
\* its locals and the logs of the call are gone
filter_return(keyword) ==
    /\ pc = "filter"
    /\ result' = Answer(all_profiles, keyword)
    /\ pc' = "idle"
    /\ last_call' = [used_cache |-> used_cache, keyword |-> keyword, returned |-> TRUE]
    /\ base' = 1
    /\ existing_profiles' = << >>
    /\ all_profiles' = << >>
    /\ written' = 0
    /\ run_fetches' = NoFetches
    /\ fresh' = NoFresh
    /\ rendered' = FALSE
    /\ used_cache' = FALSE
    /\ UNCHANGED << frontierVars, current_batch_urls, tasks, profiles_data, crawls,
                    envVars, fetchVars, reader_saw, phase_fetches, failed_pages,
                    cache_at_begin, appVars >>

\* another caller of crawl() reads the cache file (lines 363-364) while this
\* one is at work
reader_load ==
    /\ reader_saw' = [read |-> TRUE, valid |-> _is_cache_valid(cache_file, now),
                      form |-> cache_file.form, data |-> _load_from_cache(cache_file)]
    /\ UNCHANGED << crawlVars, envVars, fetchVars, logVars, appVars >>

\* the write of line 357 fails (the disk is full, the process is killed): the
\* exception leaves _save_to_cache and crawl()
save_fail ==
    /\ pc = "writing"
    /\ pc' = "crashed"
    /\ UNCHANGED << base, frontierVars, current_batch_urls, tasks, profiles_data,
                    existing_profiles, all_profiles, written, result, crawls, envVars,
                    fetchVars, reader_saw, logVars, appVars >>

\* one call of fetch_html against the network answers net
fetch_call ==
    /\ pc = "fetch"
    /\ fetched' = fetch_html(net)
    /\ pc' = "fetched"
    /\ UNCHANGED << base, frontierVars, current_batch_urls, tasks, profiles_data,
                    existing_profiles, all_profiles, written, result, crawls, envVars,
                    net, reader_saw, logVars, appVars >>

Next ==
    \/ Tick
    \/ crawl_begin
    \/ \E o \in RenderOutcomes : render(o)
    \/ open_session
    \/ loop_head
    \/ \E i \in DOMAIN tasks : StartRequest(i)
    \/ \E i \in DOMAIN tasks : FinishRequest(i)
    \/ gather_listing_done
    \/ return_links
    \/ gather_profiles_done
    \/ save_open
    \/ save_write
    \/ save_close
    \/ \E kw \in Keywords : filter_return(kw)

Spec == Init /\ [][Next]_vars

(* ------------------- crawl() with the fetch log kept -------------------- *)
InitAudit ==
    /\ Uncalled
    /\ all_profiles = << >>
    /\ pc = "idle"
    /\ links_bound = FALSE
    /\ initial_dept_links = {}
    /\ web \in CrawlWebs
    /\ cache_file = NoFile
    /\ cache_at_begin = cache_file
    /\ max_concurrent_requests \in ConcurrencyLimits
    /\ audit = TRUE
    /\ net = Always(Timeout)

SpecAudit == InitAudit /\ [][Next]_vars

(* ------------- crawl() over every kind of cache file -------------------- *)
\* cache files no crawl of this program wrote: bytes that are not UTF-8, JSON
\* that is an object, and an array of objects without the 'Profile URL' key
UnkeyedRecord == [CachedRecord("P") EXCEPT !.Profile_URL = Missing]
ForeignCaches ==
    { [exists |-> TRUE, form |-> "not_utf8", data |-> << >>, mtime |-> 0],
      [exists |-> TRUE, form |-> "not_list", data |-> << >>, mtime |-> 0],
      FileOf(<< UnkeyedRecord >>, 0) }

InitCrawl ==
    /\ Uncalled
    /\ all_profiles = << >>
    /\ pc = "idle"
    /\ links_bound = FALSE
    /\ initial_dept_links = {}
    /\ web \in {Site({"P"}, {"B"}, {"Q"}, {"A"}), Site({}, {"B"}, {"P"}, {})}
    /\ cache_file \in InitialCaches \cup ForeignCaches
    /\ cache_at_begin = cache_file
    /\ max_concurrent_requests = 2
    /\ audit = FALSE
    /\ net = Always(Timeout)

SpecCrawl == InitCrawl /\ [][Next]_vars

(* ------------------------- the traversal alone -------------------------- *)
\* get_all_profile_links from line 145 on, for every site and every set of
\* department links
InitFrontier ==
    /\ Uncalled
    /\ all_profiles = << >>
    /\ pc = "session"
    /\ links_bound = TRUE
    /\ initial_dept_links \in SUBSET ListingURLs
    /\ web \in Webs
    /\ cache_file = NoFile
    /\ cache_at_begin = cache_file
    /\ max_concurrent_requests \in ConcurrencyLimits
    /\ audit = FALSE
    /\ net = Always(Timeout)

NextFrontier ==
    \/ open_session
    \/ loop_head
    \/ \E i \in DOMAIN tasks : StartRequest(i)
    \/ \E i \in DOMAIN tasks : FinishRequest(i)
    \/ gather_listing_done

\* the event loop runs a task that can run, and every request ends (it
\* answers, fails, or meets its ClientTimeout)
SpecFrontier == InitFrontier /\ [][NextFrontier]_vars /\ WF_vars(NextFrontier)

(* --------------------------- fetch_html alone --------------------------- *)
FetchOutcomes == OutcomesWith({ProfileBody("t1")})

InitFetch ==
    /\ Uncalled
    /\ all_profiles = << >>
    /\ pc = "fetch"
    /\ links_bound = FALSE
    /\ initial_dept_links = {}
    /\ web \in {Site({}, {}, {}, {})}
    /\ cache_file = NoFile
    /\ cache_at_begin = cache_file
    /\ max_concurrent_requests = 1
    /\ audit = FALSE
    /\ net \in [1..max_tries -> FetchOutcomes]

SpecFetch == InitFetch /\ [][fetch_call]_vars

(* ------------------- _save_to_cache beside a reader --------------------- *)
\* the snapshots a crawl saves
SavePayloads ==
    { << >>,
      << CachedRecord("P") >>,
      << parse_profile(ProfileBody("t1"), "P", "IITM"), CachedRecord("Q") >> }

InitSave ==
    /\ Uncalled
    /\ pc = "save"
    /\ links_bound = FALSE
    /\ initial_dept_links = {}
    /\ web \in {Site({}, {}, {}, {})}
    /\ cache_file \in {f \in InitialCaches : f.form = "array"}
    /\ cache_at_begin = cache_file
    /\ max_concurrent_requests = 1
    /\ audit = FALSE
    /\ net = Always(Timeout)
    /\ all_profiles \in SavePayloads

NextSave ==
    \/ save_open
    \/ save_write
    \/ save_close
    \/ save_fail
    \/ reader_load

SpecSave == InitSave /\ [][NextSave]_vars

(* ----------------------- the query part of crawl() --------------------- *)
\* app.py search(), lines 52 and 59-67: the expression handed to crawl() for
\* the keyword and search type of the form; None is the empty expression
search_query(form_keyword, search_type) ==
    LET keyword == StripStr(form_keyword) IN
    IF keyword = << >> THEN << >>
    ELSE IF search_type = "name" /\ ~StartsWith(Lower(keyword), NamePrefix)
        THEN NamePrefix \o keyword
    ELSE IF search_type = "vidwan" /\ ~StartsWith(Lower(keyword), VidwanPrefix)
        THEN VidwanPrefix \o keyword
    ELSE keyword

SearchTypes == {"keyword", "name", "vidwan"}

\* keywords typed into the form
FormKeywords ==
    { << >>,
      << " " >>,
      << "a", "d" >>,
      << "A", "d" >>,
      << "d" >>,
      << "4", "8" >>,
      << "4" >>,
      << "n", "/", "a" >>,
      << "m", "l", ",", " ", "a", "i" >>,
      << "M", "L" >>,
      << "," >>,
      << "n", "a", "m", "e", ":", "b", "o" >>,
      << "V", "I", "D", "W", "A", "N", ":", "4", "8" >> }

\* expressions handed to crawl() by a caller other than the form
DirectKeywords ==
    { << " " >>,
      << "N", "A", "M", "E", ":", "A", "d" >>,
      << "n", "a", "m", "e", ":" >> }

QueryKeywords ==
    {search_query(k, st) : k \in FormKeywords, st \in SearchTypes} \cup DirectKeywords

\* the corpora the query runs over: up to two records with different URLs
QueryRecords ==
    {parse_profile(ProfileBody(t), u, "IITM") : t \in {"t0", "t1", "t2"}, u \in ProfileURLs}
Corpora ==
    { << >> } \cup { << r >> : r \in QueryRecords }
        \cup { << r1, r2 >> : r1 \in {r \in QueryRecords : r.Profile_URL = "P"},
                              r2 \in {r \in QueryRecords : r.Profile_URL = "Q"} }
        \cup { << r2, r1 >> : r1 \in {r \in QueryRecords : r.Profile_URL = "P"},
                              r2 \in {r \in QueryRecords : r.Profile_URL = "Q"} }

\* crawl() at line 383 of a fresh crawl (fresh_path) or at line 386 after the
\* load of a valid cache
InitQuery ==
    \E corpus \in Corpora, fresh_path \in BOOLEAN :
      /\ all_profiles = corpus
      /\ pc = IF fresh_path THEN "save" ELSE "filter"
      /\ used_cache = ~fresh_path
      /\ rendered = fresh_path
      /\ base = IF fresh_path THEN Len(base_urls) ELSE 1
      /\ existing_profiles = IF fresh_path THEN corpus ELSE << >>
      /\ cache_file = IF fresh_path THEN NoFile ELSE FileOf(corpus, 0)
      /\ cache_at_begin = cache_file
      /\ crawls = 1
      /\ attempt = 0 /\ links_bound = FALSE /\ initial_dept_links = {}
      /\ urls_to_process = {} /\ processed_urls = {} /\ profile_links = {}
      /\ current_batch_urls = << >> /\ tasks = << >>
      /\ profiles_data = << >>
      /\ written = 0 /\ result = << >>
      /\ now = 0 /\ ticks = 0
      /\ web = Site({}, {}, {}, {})
      /\ max_concurrent_requests = 1
      /\ audit = FALSE
      /\ net = Always(Timeout)
      /\ fetched = NotFetched
      /\ reader_saw = NotRead
      /\ run_fetches = NoFetches /\ phase_fetches = NoFetches /\ failed_pages = {}
      /\ last_call = NoCall /\ fresh = NoFresh
      /\ request = NoRequest /\ session = NoSession
      /\ response = NoResponse /\ last_search = << >>

NextQuery ==
    \/ save_open
    \/ save_write
    \/ save_close
    \/ \E kw \in QueryKeywords : filter_return(kw)

SpecQuery == InitQuery /\ [][NextQuery]_vars

(* ------------------------ the web application -------------------------- *)
\* app.py search(), lines 49-76: the form is read and run_crawler calls crawl()
\* on a new crawler
search_receive(form_keyword, search_type, institution) ==
    /\ pc = "idle"
    /\ ~request.pending
    /\ crawls < MaxCrawls
    /\ request' = [pending |-> TRUE, keyword |-> form_keyword,
                   search_type |-> search_type, institution |-> institution,
                   crawls_before |-> crawls]
    /\ UNCHANGED << crawlVars, envVars, fetchVars, reader_saw, logVars,
                    session, response, last_search >>

\* line 84: the institution filter on the list crawl() returned
ByInstitution(results, institution) ==
    IF institution # "all"
        THEN SelectSeq(results, LAMBDA r : r.Institution = institution)
        ELSE results

\* lines 81-105: crawl() has returned; the page is rendered, and a list that
\* is not empty is put into the session
search_respond ==
    /\ request.pending
    /\ pc = "idle"
    /\ crawls > request.crawls_before
    /\ LET results == ByInstitution(result, request.institution) IN
         /\ response' = [kind |-> "results", rows |-> results]
         /\ last_search' = results
         /\ session' = IF results = << >>
                           THEN session
                           ELSE [has_results |-> TRUE, results |-> results]
    /\ request' = NoRequest
    /\ UNCHANGED << crawlVars, envVars, fetchVars, reader_saw, logVars >>

\* lines 107-112: crawl() raised; the error page is rendered and the crawler
\* is dropped with all it held
search_fail ==
    /\ request.pending
    /\ pc = "crashed"
    /\ response' = [kind |-> "error", rows |-> << >>]
    /\ last_search' = << >>
    /\ request' = NoRequest
    /\ pc' = "idle"
    /\ base' = 1 /\ attempt' = 0
    /\ links_bound' = FALSE /\ initial_dept_links' = {}
    /\ urls_to_process' = {} /\ processed_urls' = {} /\ profile_links' = {}
    /\ current_batch_urls' = << >> /\ tasks' = << >>
    /\ profiles_data' = << >> /\ existing_profiles' = << >>
    /\ all_profiles' = << >> /\ written' = 0
    /\ run_fetches' = NoFetches /\ phase_fetches' = NoFetches /\ failed_pages' = {}
    /\ used_cache' = FALSE /\ rendered' = FALSE
    /\ fresh' = NoFresh
    /\ last_call' = [last_call EXCEPT !.returned = FALSE]
    /\ UNCHANGED << result, crawls, envVars, fetchVars, reader_saw, cache_at_begin,
                    session >>

\* clean_result.pop('html_content', None), line 135
PopHtml(r) == [k \in DOMAIN r \ {"html_content"} |-> r[k]]

\* download(), lines 122-158: the list of the session is exported, or 404 is
\* answered when the session has none
download ==
    /\ pc = "idle"
    /\ ~request.pending
    /\ LET results == IF session.has_results THEN session.results ELSE << >> IN
         response' = IF results = << >>
                        THEN [kind |-> "not_found", rows |-> << >>]
                        ELSE [kind |-> "xlsx",
                              rows |-> [i \in DOMAIN results |-> PopHtml(results[i])]]
    /\ UNCHANGED << crawlVars, envVars, fetchVars, reader_saw, logVars,
                    request, session, last_search >>

\* keywords, search types and institutions chosen in the form
AppKeywords == { << >>, << "b", "o" >>, << "a", "d" >> }
AppSearchTypes == {"keyword", "name"}
AppInstitutions == {"all", "IISC"}

InitApp ==
    /\ Uncalled
    /\ all_profiles = << >>
    /\ pc = "idle"
    /\ links_bound = FALSE
    /\ initial_dept_links = {}
    /\ web = Site({"P"}, {}, {}, {})
    /\ cache_file \in { NoFile,
                         FileOf(<< CachedRecord("P") >>, 0),
                         [exists |-> TRUE, form |-> "not_utf8", data |-> << >>, mtime |-> 0] }
    /\ cache_at_begin = cache_file
    /\ max_concurrent_requests = 1
    /\ audit = FALSE
    /\ net = Always(Timeout)

\* one browser: its requests come one after the other, and crawl() runs
\* inside search()
NextApp ==
    \/ \E k \in AppKeywords, st \in AppSearchTypes, inst \in AppInstitutions :
          search_receive(k, st, inst)
    \/ request.pending /\ crawls = request.crawls_before /\ crawl_begin
    \/ \E o \in RenderOutcomes : render(o)
    \/ open_session
    \/ loop_head
    \/ \E i \in DOMAIN tasks : StartRequest(i)
    \/ \E i \in DOMAIN tasks : FinishRequest(i)
    \/ gather_listing_done
    \/ return_links
    \/ gather_profiles_done
    \/ save_open
    \/ save_write
    \/ save_close
    \/ request.pending /\ filter_return(search_query(request.keyword, request.search_type))
    \/ search_respond
    \/ search_fail
    \/ download

SpecApp == InitApp /\ [][NextApp]_vars

(* ============================== the claims ============================== *)

\* C1: the traversal of get_all_profile_links ends whatever the fetches give,
\* and on a site whose pages A and B link to each other it ends, when no fetch
\* fails, with the visited set {A, B}.
CycleSite == web["A"].pages = {"B"} /\ web["B"].pages = {"A"}
C1_TraversalTerminates ==
    /\ <>(pc = "traversed")
    /\ [](pc = "traversed" /\ CycleSite /\ processed_urls # {} /\ failed_pages = {}
            => processed_urls = {"A", "B"})
C1_CycleTraversed ==
    /\ pc = "traversed"
    /\ CycleSite
    /\ failed_pages = {}
    /\ processed_urls = {"A", "B"}

\* C2 as claimed: in one crawl() call no URL is requested more than once.
C2_FetchedOncePerRun == \A u \in URLs : run_fetches[u] <= 1
\* what the code does keep: in one session (one traversal, one profile round)
\* no URL is requested more than once.
C2_FetchedOncePerSession == \A u \in URLs : phase_fetches[u] <= 1
C2_RefetchedInLaterSession ==
    \E u \in URLs : run_fetches[u] >= 2 /\ phase_fetches[u] = 1

\* C3 as claimed: after a timeout or a transport error fetch_html asks again,
\* and gives None only when the tries or the time are used up; it never raises.
Transport(o) == o.kind \in {"timeout", "conn_error"}
C3_RetriesTransportFailures ==
    pc = "fetched" /\ Transport(net[1]) =>
        /\ fetched.raised = "none"
        /\ fetched.attempts >= 2
        /\ (fetched.value = None =>
                fetched.attempts = max_tries \/ fetched.elapsed >= max_time)

\* C4 as claimed: a 4xx answer with a body is a successful fetch; its body is
\* what fetch_html returns, after one request.
Is4xxWithBody(o) ==
    o.kind = "response" /\ o.status >= 400 /\ o.status < 500 /\ o.body # EmptyBody
C4_ErrorPageReturned ==
    pc = "fetched" /\ Is4xxWithBody(net[1]) =>
        fetched.value = Html(net[1].body) /\ fetched.attempts = 1
\* C4 as amended: a 4xx answer is a failed fetch; fetch_html returns None,
\* after one request and without raising.
C4_ErrorPageIsFailure ==
    pc = "fetched" /\ net[1].kind = "response" /\ net[1].status >= 400
                   /\ net[1].status < 500 =>
        fetched.value = None /\ fetched.attempts = 1 /\ fetched.raised = "none"
C4_ErrorPageFetched == pc = "fetched" /\ Is4xxWithBody(net[1])

\* C5: at no moment of a crawl() call do more requests hold a connection than
\* max_concurrent_requests.
C5_InFlightBounded == InFlight <= max_concurrent_requests
C5_LimitReached ==
    /\ InFlight = max_concurrent_requests
    /\ \E i \in DOMAIN tasks : tasks[i].st = "waiting"

\* C6: the call takes the cache branch exactly when the file exists and its
\* age is strictly below the expiration window; otherwise it goes on to crawl.
CacheAge == now - cache_at_begin.mtime
C6_ValidIffYoungerThanWindow ==
    pc \notin {"idle", "fetch", "fetched"} /\ crawls > 0 =>
        IF cache_at_begin.exists /\ CacheAge < 3600
            THEN used_cache /\ ~rendered
            ELSE ~used_cache /\ (pc = "render" \/ rendered)
C6_AgeEqualsWindow ==
    /\ pc = "render"
    /\ cache_at_begin.exists
    /\ CacheAge = 3600
    /\ ~used_cache

\* C7: a call on the cache branch renders nothing, requests nothing, leaves the
\* file as it was and answers from the snapshot it loaded; two such calls in
\* succession with the same query return the same.
SnapshotOf(f) == IF f.exists /\ f.form = "array" THEN f.data ELSE << >>
C7_CacheBranchIsReadOnly ==
    /\ [](used_cache =>
            /\ pc = "filter"
            /\ ~rendered
            /\ tasks = << >>
            /\ phase_fetches = NoFetches
            /\ cache_file = cache_at_begin
            /\ all_profiles = SnapshotOf(cache_at_begin))
    /\ [][(/\ pc = "filter" /\ pc' = "idle"
           /\ used_cache
           /\ last_call.returned /\ last_call.used_cache
           /\ last_call'.keyword = last_call.keyword) => result' = result]_vars
C7_SecondCachedCall ==
    /\ pc = "filter"
    /\ used_cache
    /\ last_call.returned /\ last_call.used_cache
    /\ all_profiles # << >>

\* C8: the snapshot a fresh crawl saves holds one record per Profile URL, and
\* for a URL extracted in this call that record is the one extracted (the
\* last one, if the call extracted it for two institutions).
C8_OneRecordPerUrlFreshWins ==
    pc = "filter" /\ ~used_cache =>
        /\ cache_file.form = "array" /\ cache_file.data = all_profiles
        /\ \A i, j \in DOMAIN all_profiles :
              all_profiles[i].Profile_URL = all_profiles[j].Profile_URL => i = j
        /\ \A u \in ProfileURLs : fresh[u] # NoRecord =>
              \E i \in DOMAIN all_profiles : all_profiles[i] = fresh[u]
C8_CachedRecordOverwritten ==
    /\ pc = "filter" /\ ~used_cache
    /\ \E u \in ProfileURLs :
         /\ fresh[u] # NoRecord
         /\ \E i \in DOMAIN cache_at_begin.data :
              /\ cache_at_begin.data[i].Profile_URL = u
              /\ cache_at_begin.data[i] # fresh[u]

\* C9 as claimed: an institution whose seed page could not be rendered in any
\* of the attempts does not end the call.
C9_FailedRenderingDoesNotAbort == ~(pc = "crashed" /\ attempt >= max_retries)

\* C10 as claimed: no reader finds the cache file empty or cut off, and a
\* write that fails leaves the snapshot that was there.
C10_SaveIsAtomic ==
    /\ reader_saw.read => reader_saw.form = "array"
    /\ pc = "crashed" => cache_file = cache_at_begin

\* C11 as claimed: whatever the cache file is (missing, not JSON, not UTF-8
\* text, JSON that is no array of profile records), the load raises nothing
\* and gives the empty snapshot, the file stays as it was, and a crawl starts
\* from an empty merge base.
Unusable(f) ==
    \/ ~f.exists
    \/ f.form # "array"
    \/ ~HasKeys(f.data)
C11_UnusableCacheLoadsEmpty ==
    crawls > 0 /\ pc # "idle" /\ ~rendered /\ Unusable(cache_at_begin) =>
        /\ pc # "crashed"
        /\ all_profiles = << >>
        /\ cache_file = cache_at_begin
        /\ (pc = "render" => existing_profiles = << >>)

\* C12: a fresh crawl writes the cache file only once every institution has
\* been gone through, it comes to the save once, what it has written when it
\* turns to the query is the values of the merge base, and an empty query
\* returns those records without their html_content.
Stripped(ps, rs) ==
    /\ Len(rs) = Len(ps)
    /\ \A i \in DOMAIN ps :
          /\ DOMAIN rs[i] = DOMAIN ps[i] \ {"html_content"}
          /\ \A k \in DOMAIN rs[i] : rs[i][k] = ps[i][k]
C12_SavedOnceAfterAllInstitutions ==
    /\ [](pc = "filter" /\ ~used_cache =>
            /\ base = Len(base_urls)
            /\ all_profiles = existing_profiles
            /\ cache_file = FileOf(all_profiles, now))
    /\ [][cache_file' # cache_file =>
            pc \in {"save", "writing"} /\ base = Len(base_urls) /\ ~used_cache]_vars
    /\ [][pc' = "save" =>
            pc \in {"traversed", "gather_profiles"} /\ base = Len(base_urls)]_vars
    /\ [][pc = "filter" /\ pc' = "idle" /\ ~used_cache /\ last_call'.keyword = << >> =>
            Stripped(all_profiles, result')]_vars
C12_FreshCrawlSaved ==
    /\ pc = "filter" /\ ~used_cache
    /\ Len(all_profiles) = 2
    /\ cache_at_begin # cache_file

\* C20: a fetch that fails neither ends the batch nor touches the other
\* slots: the batch has one slot per URL, in the order of the requests, each
\* completion fills one slot, with None or with the page of that slot's URL,
\* and a record parsed from slot i carries the URL of position i.
Gathering == pc \in {"gather_listing", "gather_profiles"}
PageOf(u) ==
    IF u \in ListingURLs
        THEN {Html(ListingBody(web[u].links, web[u].pages))}
        ELSE {Html(ProfileBody(t)) : t \in ProfileTexts}
C20_FailedFetchIsIsolated ==
    /\ [](/\ Gathering => DOMAIN tasks = DOMAIN current_batch_urls
          /\ pc = "crashed" => tasks = << >>
          /\ \A i \in DOMAIN tasks : tasks[i].st = "done" =>
                \/ tasks[i].result = None
                \/ tasks[i].result = Html(EmptyBody)
                \/ tasks[i].result \in PageOf(current_batch_urls[i]))
    /\ [][Gathering /\ pc' = pc =>
            /\ DOMAIN tasks' = DOMAIN tasks
            /\ Cardinality({j \in DOMAIN tasks : tasks'[j] # tasks[j]}) = 1
            /\ \A j \in DOMAIN tasks : tasks[j].st = "done" => tasks'[j] = tasks[j]]_vars
    /\ [][pc = "gather_profiles" /\ pc' # pc =>
            \A i \in DOMAIN tasks :
                LET u == current_batch_urls[i] IN
                IF Truthy(tasks[i].result)
                    THEN /\ fresh'[u].Profile_URL = u
                         /\ fresh'[u].html_content = tasks[i].result.body.text
                    ELSE fresh'[u] = fresh[u]]_vars
C20_OneFailedOneFetched ==
    /\ pc = "gather_profiles"
    /\ \E i, j \in DOMAIN tasks :
          /\ tasks[i].st = "done" /\ tasks[i].result = None
          /\ tasks[j].st = "done" /\ Truthy(tasks[j].result)

\* C19: a listing page whose fetch gave nothing counts as visited, is not
\* requested again in the traversal, adds no profile link and no pagination
\* link, and the traversal still ends with the profile links of the pages that
\* were fetched, and of those only.
Fetched == processed_urls \ failed_pages
C19_FailedPageIsDropped ==
    /\ [](/\ failed_pages \subseteq processed_urls
          /\ \A u \in failed_pages : phase_fetches[u] <= 1
          /\ pc # "crashed"
          /\ pc = "traversed" =>
                profile_links = UNION {web[u].links : u \in Fetched})
    /\ [][pc = "gather_listing" /\ pc' = "loop" =>
            urls_to_process' \subseteq
                UNION {web[u].pages : u \in Range(current_batch_urls) \ failed_pages'}]_vars
C19_LinksOfFailedPageLost ==
    /\ pc = "traversed"
    /\ profile_links # {}
    /\ \E u \in failed_pages : web[u].links # {} /\ web[u].pages # {}

\* C21: in the traversal no URL is at once pending and visited, at the loop
\* test and after the pagination links of a batch were queued, and the
\* visited set only grows.
C21_PendingAndVisitedDisjoint ==
    /\ [](urls_to_process \cap processed_urls = {})
    /\ [][processed_urls \subseteq processed_urls']_vars
C21_BothSetsFilled ==
    /\ pc = "loop"
    /\ urls_to_process # {}
    /\ processed_urls # {}
    /\ \E u \in processed_urls : urls_to_process \cap web[u].pages # {}
                                  /\ processed_urls \cap web[u].pages # {}

\* C22: a fresh crawl that comes to its end has saved a record for every
\* Profile URL of the snapshot it loaded, rediscovered or not; so the stored
\* URLs never shrink from one completed crawl to the next.
Stored(f) == {SnapshotOf(f)[i].Profile_URL : i \in DOMAIN SnapshotOf(f)}
C22_NoCachedRecordEvicted ==
    /\ [](pc = "filter" /\ ~used_cache => Stored(cache_at_begin) \subseteq Stored(cache_file))
    /\ [][pc = "filter" /\ pc' = "idle" => Stored(cache_at_begin) \subseteq Stored(cache_file')]_vars
C22_StaleRecordKept ==
    /\ pc = "filter" /\ ~used_cache
    /\ \E u \in Stored(cache_at_begin) : fresh[u] = NoRecord
    /\ \E u \in ProfileURLs : fresh[u] # NoRecord

\* C23: a fresh crawl that returns has rewritten the cache file with the time
\* of the save, whatever failed and whatever it harvested; a call that comes
\* less than 3600 s later takes the cache branch and answers from that file.
C23_FreshCrawlLeavesCacheValid ==
    /\ [](pc = "filter" /\ ~used_cache =>
            /\ cache_file.exists /\ cache_file.form = "array"
            /\ cache_file.mtime = now
            /\ cache_file.data = all_profiles)
    /\ [][(/\ pc = "idle" /\ pc' # "idle"
           /\ last_call.returned /\ ~last_call.used_cache
           /\ now - cache_file.mtime < 3600) =>
              /\ pc' = "filter" /\ used_cache'
              /\ all_profiles' = cache_file.data
              /\ tasks' = << >> /\ ~rendered'
              /\ cache_file' = cache_file]_vars
C23_ServedFromEmptySnapshot ==
    /\ pc = "filter" /\ used_cache
    /\ last_call.returned /\ ~last_call.used_cache
    /\ now > cache_file.mtime
    /\ all_profiles = << >>
    /\ cache_at_begin.exists

(* ----------------------- the claims on the query ------------------------ *)
\* a call has returned: the corpus it answered from (the cache file holds
\* it), the expression it was given, and what it returned
Returned == pc = "idle" /\ last_call.returned
Corpus == cache_file.data
Expression == last_call.keyword

\* a text with its capital letters made small
CaseFold(s) == [i \in DOMAIN s |-> LowerChar(s[i])]
IsPrefix(a, b) == Len(a) <= Len(b) /\ \A i \in 1..Len(a) : a[i] = b[i]
IsSubstring(a, b) ==
    \E off \in 0..(Len(b) - Len(a)) : \A i \in 1..Len(a) : a[i] = b[off + i]
IsNameQuery(q) == Len(q) >= 5 /\ CaseFold(SubSeq(q, 1, 5)) = NamePrefix
IsVidwanQuery(q) == Len(q) >= 7 /\ CaseFold(SubSeq(q, 1, 7)) = VidwanPrefix
IsFreeText(q) == q # << >> /\ ~IsNameQuery(q) /\ ~IsVidwanQuery(q)
TermAfter(q, n) == CaseFold(SubSeq(q, n + 1, Len(q)))

PublicFields == {"Institution", "Name", "Department", "Vidwan_ID", "Profile_URL", "Expertise"}
SameButHtml(p, r) == \A f \in PublicFields : f \in DOMAIN r /\ r[f] = p[f]
\* rs is the records of the corpus at the positions kept, in corpus order
InCorpusOrder(kept, rs) ==
    /\ Len(rs) = Cardinality(kept)
    /\ \A k \in DOMAIN rs :
          LET i == CHOOSE i \in kept : Cardinality({j \in kept : j <= i}) = k
          IN  SameButHtml(Corpus[i], rs[k])

\* the score the specification gives a record for a list of keywords
ClaimedScore(p, kws) ==
    LET inExpertise == {k \in DOMAIN kws : IsSubstring(kws[k], CaseFold(p.Expertise))}
        inHtml == {k \in DOMAIN kws \ inExpertise :
                      IsSubstring(kws[k], CaseFold(CharsOf(p.html_content)))}
    IN  2 * Cardinality(inExpertise) + Cardinality(inHtml)
PositionOf(r) == CHOOSE i \in DOMAIN Corpus : Corpus[i].Profile_URL = r.Profile_URL

\* C13 as claimed: a free-text query returns its records by descending score,
\* records of equal score in corpus order.
C13_RankedByScore ==
    Returned /\ IsFreeText(Expression) =>
        \A a, b \in DOMAIN result : a < b =>
            LET kws == KeywordsOf(Expression)
                sa == ClaimedScore(Corpus[PositionOf(result[a])], kws)
                sb == ClaimedScore(Corpus[PositionOf(result[b])], kws)
            IN  sa > sb \/ (sa = sb /\ PositionOf(result[a]) < PositionOf(result[b]))

\* C14: a free-text query returns a record exactly when one of its keywords
\* is in the record's lower-cased Expertise or lower-cased page body; without
\* any keyword it returns nothing.
Hits(kws) ==
    {i \in DOMAIN Corpus : \E k \in DOMAIN kws :
        \/ IsSubstring(kws[k], CaseFold(Corpus[i].Expertise))
        \/ IsSubstring(kws[k], CaseFold(CharsOf(Corpus[i].html_content)))}
C14_ReturnedIffSomeKeywordHits ==
    Returned /\ IsFreeText(Expression) =>
        LET hits == Hits(KeywordsOf(Expression)) IN
        /\ Len(result) = Cardinality(hits)
        /\ {result[k].Profile_URL : k \in DOMAIN result} =
               {Corpus[i].Profile_URL : i \in hits}
        /\ (KeywordsOf(Expression) = << >> => result = << >>)
C14_OneKeptOneDropped ==
    /\ Returned /\ IsFreeText(Expression)
    /\ Len(Corpus) = 2 /\ Len(result) = 1

\* C15: no record crawl() returns has the html_content field, whatever the
\* query and on both paths, and the records of the cache file have it.
C15_NoHtmlInResult ==
    /\ Returned => \A i \in DOMAIN result : "html_content" \notin DOMAIN result[i]
    /\ pc \in {"filter", "idle"} =>
          \A i \in DOMAIN cache_file.data : "html_content" \in DOMAIN cache_file.data[i]
    /\ pc = "filter" /\ ~used_cache => cache_file.data = all_profiles
C15_FreshResultReturned ==
    /\ Returned /\ ~last_call.used_cache
    /\ result # << >>
    /\ Len(cache_file.data) = 2

\* C16: a name: query returns exactly the records whose Name begins with the
\* term, letter case aside, in corpus order.
C16_NamePrefixInCorpusOrder ==
    Returned /\ IsNameQuery(Expression) =>
        InCorpusOrder({i \in DOMAIN Corpus :
                          IsPrefix(TermAfter(Expression, 5), CaseFold(Corpus[i].Name))},
                      result)
C16_NameKeptAndDropped ==
    /\ Returned /\ IsNameQuery(Expression)
    /\ Len(Corpus) = 2 /\ Len(result) = 1
    /\ TermAfter(Expression, 5) # SubSeq(Expression, 6, Len(Expression))

\* C17: a vidwan: query returns exactly the records whose Vidwan-ID is the
\* term, letter case aside and as a whole, in corpus order.
C17_VidwanExactInCorpusOrder ==
    Returned /\ IsVidwanQuery(Expression) =>
        InCorpusOrder({i \in DOMAIN Corpus :
                          TermAfter(Expression, 7) = CaseFold(Corpus[i].Vidwan_ID)},
                      result)
C17_VidwanKeptAndDropped ==
    /\ Returned /\ IsVidwanQuery(Expression)
    /\ Len(Corpus) = 2 /\ Len(result) = 1
    /\ result[1].Vidwan_ID = NA

\* C18: without an expression crawl() returns the whole corpus in corpus
\* order, and the form's empty keyword is no expression.
C18_EmptyQueryReturnsAll ==
    /\ Returned /\ Expression = << >> => InCorpusOrder(DOMAIN Corpus, result)
    /\ \A st \in SearchTypes :
          search_query(<< >>, st) = << >> /\ search_query(<< " " >>, st) = << >>
C18_WholeCorpusReturned ==
    /\ Returned /\ Expression = << >>
    /\ Len(Corpus) = 2 /\ Len(result) = 2

\* C24 as claimed: /download exports the list the most recent /search
\* rendered, and answers 404 when that search rendered no profile or failed.
C24_DownloadServesLastSearch ==
    response.kind \in {"xlsx", "not_found"} =>
        IF last_search = << >>
            THEN response.kind = "not_found"
            ELSE response.kind = "xlsx" /\ response.rows = last_search

====
